---- MODULE Spec2Model ----
(***************************************************************************)
(* OI Sentry (src/oi_sentry.py): the polling loop run_loop, its SIGINT     *)
(* handler, the state file written by save_state and the alert rules.      *)
(*                                                                         *)
(* Open-interest values are modelled as naturals and percentages as exact  *)
(* fractions <<numerator, denominator>>; the float rounding of the Python  *)
(* arithmetic is not modelled.  One action is one stretch of run_loop      *)
(* between two points at which a signal can be observed to make a          *)
(* difference; the SIGINT handler runs to completion in one action, as the *)
(* interpreter runs a Python signal handler between two bytecodes of the   *)
(* main thread.  rolling_stats and zscore are also run on their own, over  *)
(* every short window, by the specification StatsSpec.                     *)
(***************************************************************************)
EXTENDS Integers, Sequences, FiniteSets, TLC

\* ---------------------------------------------------------------- bounds
\* Largest --keep-points tried (0..MaxKeep).
MaxKeep == 2
\* Longest history found in the state file at start.
MaxFileLen == 2
\* Largest --max-iter tried (0 = run forever).
MaxIterArg == 2
\* Cycles after which the model stops polling (the loop itself is unbounded).
MaxCycles == 2
\* Longest window given to rolling_stats on its own.
MaxWindow == 3

\* Values a fetch can return, and the "no value" of a failed fetch.
OIVals == {0, 100, 101}
\* An optional value: None, or Some(v) holding v.
None == << >>
Some(v) == <<v>>
\* Percentage thresholds tried for --up/--down/--sync-thresh-pct.
PctThreshVals == {0, 1}
\* Absolute thresholds tried for --total-swing-thresh.
SwingThreshVals == {1, 100}

VARIABLES
    args,          \* the parsed command line (constant during a run)
    file,          \* the state file: [kind, history]
    tmp,           \* the temporary file of save_state: None or Some(history)
    state,         \* state["history"]: None while the key is unset, else Some(list)
    aliased,       \* TRUE when state["history"] is the very list `history`
    history,       \* the in-memory History Buffer
    last_binance,  \* baseline of source A, None if absent
    last_bybit,    \* baseline of source B, None if absent
    oi_binance,    \* this cycle's fetch of source A, None if it failed
    oi_bybit,      \* this cycle's fetch of source B, None if it failed
    alerts,        \* the alerts list of the latest classified tick
    sent,          \* the push_discord calls made so far: [title, ok]
    iters,         \* _iters
    pc,            \* the point of run_loop the process is at
    ret,           \* where save_state returns to
    cycle,         \* what the cycle under way (or just ended) turned out to be
    ok_ticks,      \* successful fetch pairs so far in this run
    restored,      \* TRUE once lines 124-125 have found a baseline in history
    zs,            \* <<z_b, z_y>> of the latest classified tick, None before
    probe          \* rolling_stats and zscore applied to a window on their own

vars == <<args, file, tmp, state, aliased, history, last_binance, last_bybit,
          oi_binance, oi_bybit, alerts, sent, iters, pc, ret, cycle, ok_ticks,
          restored, zs, probe>>

\* ------------------------------------------------------- pure functions
\* Python's seq[-k:] for any integer k (k = 0 gives the whole sequence).
NegSlice(s, k) ==
    LET n == Len(s)
        from == IF k > 0 THEN (IF k >= n THEN 1 ELSE n - k + 1)
                ELSE (IF -k >= n THEN n + 1 ELSE -k + 1)
    IN  SubSeq(s, from, n)

\* pct_change that counts a rise from 0 as a rise of 100 percent.
pct_change_from_zero(new, old) ==
    IF old = 0 THEN (IF new > 0 THEN <<100, 1>> ELSE <<0, 1>>)
    ELSE IF old > 0 THEN <<(new - old) * 100, old>>
    ELSE <<(old - new) * 100, -old>>

\* pct_change as an exact fraction <<num, den>> with den > 0.
pct_change(new, old) ==
    IF old = 0 THEN <<0, 1>>
    ELSE IF old > 0 THEN <<(new - old) * 100, old>>
    ELSE <<(old - new) * 100, -old>>

\* fraction >= integer, fraction <= integer
PctGE(p, t) == p[1] >= t * p[2]
PctLE(p, t) == p[1] <= t * p[2]

Abs(x) == IF x < 0 THEN -x ELSE x

Max(a, b) == IF a >= b THEN a ELSE b

\* The ceiling of a / b for b > 0.
CeilDiv(a, b) == -((-a) \div b)

RECURSIVE SumSeq(_)
SumSeq(s) == IF s = << >> THEN 0 ELSE s[1] + SumSeq(Tail(s))

\* epsilon = 1e-9 = 1 / EpsInv
EpsInv == 1000000000

\* A standard deviation: the fraction `of` itself, or its square root.
\* (The square of 1e-9 has no 32-bit denominator, and the root of a
\* variance is irrational.)
Exactly(f) == [root |-> FALSE, of |-> f]
SqrtOf(f) == [root |-> TRUE, of |-> f]

\* std <= 1e-9 and std >= 1e-9, exactly and within 32 bits
LeEps(std) ==
    IF std.root THEN std.of[1] <= (std.of[2] \div EpsInv) \div EpsInv
    ELSE std.of[1] <= std.of[2] \div EpsInv
GeEps(std) ==
    IF std.root
    THEN std.of[1] >= CeilDiv(CeilDiv(std.of[2], EpsInv), EpsInv)
    ELSE std.of[1] >= CeilDiv(std.of[2], EpsInv)

\* max(var, 1e-9) for a fraction var
FloorAtEps(var) ==
    IF var[1] >= CeilDiv(var[2], EpsInv) THEN var ELSE <<1, EpsInv>>

\* The variance of line 97 as a fraction: with n = len(values) and
\* S = sum(values), sum((v - S/n)^2) / max(1, n-1)
\*   = sum((n*v - S)^2) / (n * n * max(1, n-1)).
Variance(values) ==
    LET n == Len(values)
        S == SumSeq(values)
    IN  <<SumSeq([i \in 1..n |-> (n * values[i] - S) * (n * values[i] - S)]),
          n * n * Max(1, n - 1)>>

\* rolling_stats without the floor on the variance.
rolling_stats_unfloored(values) ==
    IF values = << >>
    THEN [mean |-> <<0, 1>>, std |-> Exactly(<<1, EpsInv>>)]
    ELSE [mean |-> <<SumSeq(values), Len(values)>>,
          std |-> SqrtOf(Variance(values))]

\* lines 93-98: (mean, std), the mean as a fraction
rolling_stats(values) ==
    IF values = << >>
    THEN [mean |-> <<0, 1>>, std |-> Exactly(<<1, EpsInv>>)]
    ELSE [mean |-> <<SumSeq(values), Len(values)>>,
          std |-> SqrtOf(FloorAtEps(Variance(values)))]

\* lines 101-104: the z-score as (x - mean) over std, the quotient left
\* unevaluated; 0.0 is 0 over 1.
zscore(x, mean, std) ==
    IF LeEps(std) THEN [num |-> <<0, 1>>, over |-> Exactly(<<1, 1>>)]
    ELSE [num |-> <<x * mean[2] - mean[1], mean[2]>>, over |-> std]

\* lines 161-166: the z-score of x in the window made of field f of history
ZOf(x, hist, f) ==
    LET st == rolling_stats([i \in DOMAIN hist |-> hist[i][f]])
    IN  zscore(x, st.mean, st.std)

\* total_swing without the abs(): a falling total never counts.
total_swing_signed(a, b, la, lb) == (a + b) - (la + lb)

total_swing(a, b, la, lb) == Abs((a + b) - (la + lb))

seesaw_up(a, b, la, lb, g) ==
    /\ PctGE(pct_change(a, la), g.up_thresh_pct)
    /\ PctLE(pct_change(b, lb), -g.down_thresh_pct)

\* seesaw_dn with the sign of the down threshold lost.
seesaw_dn_unsigned(a, b, la, lb, g) ==
    /\ PctGE(pct_change(b, lb), g.up_thresh_pct)
    /\ PctLE(pct_change(a, la), g.down_thresh_pct)

seesaw_dn(a, b, la, lb, g) ==
    /\ PctGE(pct_change(b, lb), g.up_thresh_pct)
    /\ PctLE(pct_change(a, la), -g.down_thresh_pct)

SeesawAlert(a, b, la, lb, g) ==
    IF seesaw_up(a, b, la, lb, g) \/ seesaw_dn(a, b, la, lb, g)
    THEN << <<"Seesaw", IF seesaw_up(a, b, la, lb, g)
                        THEN "Binance up / Bybit down"
                        ELSE "Bybit up / Binance down">> >>
    ELSE << >>

SyncPumpAlert(a, b, la, lb, g) ==
    IF /\ PctGE(pct_change(a, la), g.sync_thresh_pct)
       /\ PctGE(pct_change(b, lb), g.sync_thresh_pct)
    THEN << <<"Sync Pump", "Both OI increasing">> >>
    ELSE << >>

\* Sync Flush firing as soon as one source falls.
SyncFlushAlertEither(a, b, la, lb, g) ==
    IF \/ PctLE(pct_change(a, la), -g.sync_thresh_pct)
       \/ PctLE(pct_change(b, lb), -g.sync_thresh_pct)
    THEN << <<"Sync Flush", "Both OI decreasing">> >>
    ELSE << >>

SyncFlushAlert(a, b, la, lb, g) ==
    IF /\ PctLE(pct_change(a, la), -g.sync_thresh_pct)
       /\ PctLE(pct_change(b, lb), -g.sync_thresh_pct)
    THEN << <<"Sync Flush", "Both OI decreasing">> >>
    ELSE << >>

TotalSwingAlert(a, b, la, lb, g) ==
    IF total_swing(a, b, la, lb) >= g.total_swing_thresh
    THEN << <<"Total Swing", "swing over threshold">> >>
    ELSE << >>

\* The four rules with Total Swing evaluated first.
ClassifierSwingFirst(a, b, la, lb, g) ==
    TotalSwingAlert(a, b, la, lb, g) \o SeesawAlert(a, b, la, lb, g)
        \o SyncPumpAlert(a, b, la, lb, g) \o SyncFlushAlert(a, b, la, lb, g)

\* The alerts list built by lines 177-192.
Classifier(a, b, la, lb, g) ==
    SeesawAlert(a, b, la, lb, g) \o SyncPumpAlert(a, b, la, lb, g)
        \o SyncFlushAlert(a, b, la, lb, g) \o TotalSwingAlert(a, b, la, lb, g)

Categories(al) == {al[i][1] : i \in DOMAIN al}

\* The title of the composed message: the categories in order.
Title(al) == [i \in DOMAIN al |-> al[i][1]]

TickRecord(t, a, b) == [ts |-> t, oi_binance |-> a, oi_bybit |-> b]

\* ---------------------------------------------------------------- Init
\* A record a previous run left in the state file (timestamps <= 0).
OldRecord(t) ==
    TickRecord(t, IF t % 2 = 0 THEN 100 ELSE 101, IF t % 2 = 0 THEN 100 ELSE 0)

OldHistory(n) == [i \in 1..n |-> OldRecord(i - n)]

\* The state file at start: missing; "garbage", which open or json.load
\* rejects; "nondict", valid JSON that is not an object (a list, a number,
\* null); or the document of an earlier run.
StateFiles ==
    {[kind |-> k, history |-> << >>] : k \in {"missing", "garbage", "nondict"}}
        \cup {[kind |-> "doc", history |-> OldHistory(n)] : n \in 0..MaxFileLen}

\* The command line: keep_points, the four thresholds, webhook set or not,
\* max_iter.
Args(k, u, d, s, t, w, m) ==
    [keep_points |-> k, up_thresh_pct |-> u, down_thresh_pct |-> d,
     sync_thresh_pct |-> s, total_swing_thresh |-> t, webhook |-> w,
     max_iter |-> m]

\* The command lines tried: every combination of the four thresholds with
\* the largest retention and no iteration limit, and every combination of
\* retention and iteration limit with one set of thresholds.  (No line of
\* run_loop reads a threshold together with keep_points or max_iter.)
ArgsSet ==
    {Args(MaxKeep, u, d, s, t, w, 0) :
        u \in PctThreshVals, d \in PctThreshVals, s \in PctThreshVals,
        t \in SwingThreshVals, w \in BOOLEAN}
    \cup {Args(k, 1, 1, 1, 100, w, m) :
        k \in 0..MaxKeep, w \in BOOLEAN, m \in 0..MaxIterArg}

Init ==
    /\ args \in ArgsSet
    /\ file \in StateFiles
    /\ tmp = None
    /\ state = None
    /\ aliased = FALSE
    /\ history = << >>
    /\ last_binance = None
    /\ last_bybit = None
    /\ oi_binance = None
    /\ oi_bybit = None
    /\ alerts = << >>
    /\ sent = << >>
    /\ iters = 0
    /\ pc = "load"
    /\ ret = "none"
    /\ cycle = "none"
    /\ ok_ticks = 0
    /\ restored = FALSE
    /\ zs = None
    /\ probe = None

\* ------------------------------------------------------------- actions
\* The timestamp of the cycle under way (utc_now_iso at line 128): a clock
\* that advances once per cycle.
ts == iters + 1

\* The limit of --max-iter is reached after the increment of _iters.
MaxIterReached(n) == args.max_iter # 0 /\ n >= args.max_iter

\* lines 112-114: load_state, history = state.get("history", []), _iters = 0.
\* load_state gives {} for a missing file and for one that open or json.load
\* rejects; what json.load accepts it returns as it is, and state.get raises
\* AttributeError on a value that is not a dict.
LoadState ==
    /\ pc = "load"
    /\ history' = file.history
    /\ state' = IF file.kind = "doc" THEN Some(file.history) ELSE None
    /\ aliased' = (file.kind = "doc")
    /\ iters' = 0
    /\ pc' = IF file.kind = "nondict" THEN "crashed" ELSE "install"
    /\ UNCHANGED <<args, file, tmp, last_binance, last_bybit, oi_binance,
                   oi_bybit, alerts, sent, ret, cycle, ok_ticks, restored,
            zs, probe>>

\* line 122: signal.signal(signal.SIGINT, sigint_handler)
InstallHandler ==
    /\ pc = "install"
    /\ pc' = "baseline"
    /\ UNCHANGED <<args, file, tmp, state, aliased, history, last_binance,
                   last_bybit, oi_binance, oi_bybit, alerts, sent, iters, ret,
                   cycle, ok_ticks, restored, zs, probe>>

\* InitBaseline reading the oldest record instead of the newest.
InitBaselineOldest ==
    /\ pc = "baseline"
    /\ last_binance' = IF history # << >>
                       THEN Some(history[1].oi_binance) ELSE None
    /\ last_bybit' = IF history # << >>
                     THEN Some(history[1].oi_bybit) ELSE None
    /\ restored' = (history # << >>)
    /\ pc' = "fetch"
    /\ UNCHANGED <<args, file, tmp, state, aliased, history, oi_binance,
                   oi_bybit, alerts, sent, iters, ret, cycle, ok_ticks,
            zs, probe>>

\* lines 124-125: the baseline restored from the last record of history
InitBaseline ==
    /\ pc = "baseline"
    /\ last_binance' = IF history # << >>
                       THEN Some(history[Len(history)].oi_binance) ELSE None
    /\ last_bybit' = IF history # << >>
                     THEN Some(history[Len(history)].oi_bybit) ELSE None
    /\ restored' = (history # << >>)
    /\ pc' = "fetch"
    /\ UNCHANGED <<args, file, tmp, state, aliased, history, oi_binance,
                   oi_bybit, alerts, sent, iters, ret, cycle, ok_ticks,
            zs, probe>>

\* lines 128-132: both fetches, then the test for a failure
Fetch ==
    /\ pc = "fetch"
    /\ iters < MaxCycles
    /\ \E a \in {None} \cup {Some(v) : v \in OIVals},
          b \in {None} \cup {Some(v) : v \in OIVals} :
        /\ oi_binance' = a
        /\ oi_bybit' = b
        /\ IF a = None \/ b = None
           THEN /\ pc' = "skip"
                /\ cycle' = "failed"
                /\ ok_ticks' = ok_ticks
           ELSE /\ pc' = "append"
                /\ cycle' = "fetched"
                /\ ok_ticks' = ok_ticks + 1
    /\ UNCHANGED <<args, file, tmp, state, aliased, history, last_binance,
                   last_bybit, alerts, sent, iters, ret, restored, zs, probe>>

\* SkipCycle that drops the baseline after a failed fetch.
SkipCycleResetting ==
    /\ pc = "skip"
    /\ iters' = iters + 1
    /\ last_binance' = None
    /\ last_bybit' = None
    /\ IF MaxIterReached(iters + 1)
       THEN /\ state' = Some(NegSlice(history, args.keep_points))
            /\ aliased' = FALSE
            /\ pc' = "save_write"
            /\ ret' = "done"
       ELSE /\ pc' = "fetch"
            /\ UNCHANGED <<state, aliased, ret>>
    /\ UNCHANGED <<args, file, tmp, history, oi_binance, oi_bybit, alerts,
                   sent, cycle, ok_ticks, restored, zs, probe>>

\* lines 133-141: the cycle of a failed fetch
SkipCycle ==
    /\ pc = "skip"
    /\ iters' = iters + 1
    /\ IF MaxIterReached(iters + 1)
       THEN /\ state' = Some(NegSlice(history, args.keep_points))
            /\ aliased' = FALSE
            /\ pc' = "save_write"
            /\ ret' = "done"
       ELSE /\ pc' = "fetch"
            /\ UNCHANGED <<state, aliased, ret>>
    /\ UNCHANGED <<args, file, tmp, history, last_binance, last_bybit,
                   oi_binance, oi_bybit, alerts, sent, cycle, ok_ticks,
            restored, zs, probe>>

\* line 143: history.append(...)
AppendTick ==
    /\ pc = "append"
    /\ history' = Append(history, TickRecord(ts, oi_binance[1], oi_bybit[1]))
    /\ state' = IF aliased THEN Some(history') ELSE state
    /\ pc' = "trim"
    /\ UNCHANGED <<args, file, tmp, aliased, last_binance, last_bybit,
                   oi_binance, oi_bybit, alerts, sent, iters, ret, cycle,
                   ok_ticks, restored, zs, probe>>

\* line 144: history[:] = history[-keep_points:], then the test of line 146
TrimHistory ==
    /\ pc = "trim"
    /\ history' = NegSlice(history, args.keep_points)
    /\ state' = IF aliased THEN Some(history') ELSE state
    /\ IF last_binance = None \/ last_bybit = None
       THEN pc' = "warmup" /\ cycle' = "warmup"
       ELSE pc' = "classify" /\ cycle' = "steady"
    /\ UNCHANGED <<args, file, tmp, aliased, last_binance, last_bybit,
                   oi_binance, oi_bybit, alerts, sent, iters, ret, ok_ticks,
            restored, zs, probe>>

\* Warmup that also posts a message for the first tick.
WarmupNotifying ==
    /\ pc = "warmup"
    /\ last_binance' = oi_binance
    /\ last_bybit' = oi_bybit
    /\ sent' = IF args.webhook
               THEN Append(sent, [title |-> <<"Warmup">>, ok |-> TRUE])
               ELSE sent
    /\ state' = Some(history)
    /\ aliased' = TRUE
    /\ pc' = "save_write"
    /\ ret' = "warm_sleep"
    /\ UNCHANGED <<args, file, tmp, history, oi_binance, oi_bybit, alerts,
                   iters, cycle, ok_ticks, restored, zs, probe>>

\* lines 147-151: the warmup tick sets the baseline and saves
Warmup ==
    /\ pc = "warmup"
    /\ last_binance' = oi_binance
    /\ last_bybit' = oi_bybit
    /\ state' = Some(history)
    /\ aliased' = TRUE
    /\ pc' = "save_write"
    /\ ret' = "warm_sleep"
    /\ UNCHANGED <<args, file, tmp, history, oi_binance, oi_bybit, alerts,
                   sent, iters, cycle, ok_ticks, restored, zs, probe>>

\* lines 152-156: end of the warmup cycle
WarmupSleep ==
    /\ pc = "warm_sleep"
    /\ iters' = iters + 1
    /\ pc' = IF MaxIterReached(iters + 1) THEN "done" ELSE "fetch"
    /\ UNCHANGED <<args, file, tmp, state, aliased, history, last_binance,
                   last_bybit, oi_binance, oi_bybit, alerts, sent, ret, cycle,
                   ok_ticks, restored, zs, probe>>

\* A tick whose rules are heard only when source A stands away from its
\* window mean.
TickOutcomeZGated(a, b, la, lb, hist, g) ==
    [zs |-> <<ZOf(a, hist, "oi_binance"), ZOf(b, hist, "oi_bybit")>>,
     alerts |-> IF ZOf(a, hist, "oi_binance").num[1] = 0 THEN << >>
                ELSE Classifier(a, b, la, lb, g)]

\* lines 158-192 as a function of what they read: the tick (a, b), the
\* baseline (la, lb), the History Buffer and the command line.
TickOutcome(a, b, la, lb, hist, g) ==
    [zs |-> <<ZOf(a, hist, "oi_binance"), ZOf(b, hist, "oi_bybit")>>,
     alerts |-> Classifier(a, b, la, lb, g)]

\* lines 158-192: the deltas, the z-scores and the four rules
Classify ==
    /\ pc = "classify"
    /\ alerts' = TickOutcome(oi_binance[1], oi_bybit[1], last_binance[1],
                             last_bybit[1], history, args).alerts
    /\ zs' = Some(TickOutcome(oi_binance[1], oi_bybit[1], last_binance[1],
                              last_bybit[1], history, args).zs)
    /\ pc' = "notify"
    /\ UNCHANGED <<args, file, tmp, state, aliased, history, last_binance,
                   last_bybit, oi_binance, oi_bybit, sent, iters, ret, cycle,
                   ok_ticks, restored, probe>>

\* A notifier whose failed delivery makes the cycle give up: the baseline
\* update and the save of lines 206-208 are skipped.
NotifyBlocking ==
    /\ pc = "notify"
    /\ IF alerts # << >> /\ args.webhook
       THEN \E ok \in BOOLEAN :
                /\ sent' = Append(sent, [title |-> Title(alerts), ok |-> ok])
                /\ pc' = IF ok THEN "update" ELSE "sleep"
       ELSE sent' = sent /\ pc' = "update"
    /\ UNCHANGED <<args, file, tmp, state, aliased, history, last_binance,
                   last_bybit, oi_binance, oi_bybit, alerts, iters, ret, cycle,
                   ok_ticks, restored, zs, probe>>

\* lines 194-204: one push_discord call when there are alerts and a webhook;
\* its result (delivered or not) is ignored
Notify ==
    /\ pc = "notify"
    /\ IF alerts # << >> /\ args.webhook
       THEN \E ok \in BOOLEAN :
                sent' = Append(sent, [title |-> Title(alerts), ok |-> ok])
       ELSE sent' = sent
    /\ pc' = "update"
    /\ UNCHANGED <<args, file, tmp, state, aliased, history, last_binance,
                   last_bybit, oi_binance, oi_bybit, alerts, iters, ret, cycle,
                   ok_ticks, restored, zs, probe>>

\* lines 206-208: the baseline becomes the current tick, then the save
UpdateBaseline ==
    /\ pc = "update"
    /\ last_binance' = oi_binance
    /\ last_bybit' = oi_bybit
    /\ state' = Some(history)
    /\ aliased' = TRUE
    /\ pc' = "save_write"
    /\ ret' = "sleep"
    /\ UNCHANGED <<args, file, tmp, history, oi_binance, oi_bybit, alerts,
                   sent, iters, cycle, ok_ticks, restored, zs, probe>>

\* lines 210-215: end of a steady cycle
Sleep ==
    /\ pc = "sleep"
    /\ iters' = iters + 1
    /\ IF MaxIterReached(iters + 1)
       THEN /\ state' = Some(NegSlice(history, args.keep_points))
            /\ aliased' = FALSE
            /\ pc' = "save_write"
            /\ ret' = "done"
       ELSE /\ pc' = "fetch"
            /\ UNCHANGED <<state, aliased, ret>>
    /\ UNCHANGED <<args, file, tmp, history, last_binance, last_bybit,
                   oi_binance, oi_bybit, alerts, sent, cycle, ok_ticks,
            restored, zs, probe>>

\* save_state, lines 72-74: the document is written to the temporary file
SaveWrite ==
    /\ pc = "save_write"
    /\ tmp' = state
    /\ pc' = "save_replace"
    /\ UNCHANGED <<args, file, state, aliased, history, last_binance,
                   last_bybit, oi_binance, oi_bybit, alerts, sent, iters, ret,
                   cycle, ok_ticks, restored, zs, probe>>

\* save_state that removes the temporary file without moving it into place.
SaveReplaceDropped ==
    /\ pc = "save_replace"
    /\ file' = file
    /\ tmp' = None
    /\ pc' = ret
    /\ ret' = "none"
    /\ UNCHANGED <<args, state, aliased, history, last_binance, last_bybit,
                   oi_binance, oi_bybit, alerts, sent, iters, cycle, ok_ticks,
                   restored, zs, probe>>

\* save_state, line 75: os.replace(tmp, path)
SaveReplace ==
    /\ pc = "save_replace"
    /\ file' = [kind |-> "doc", history |-> tmp[1]]
    /\ tmp' = None
    /\ pc' = ret
    /\ ret' = "none"
    /\ UNCHANGED <<args, state, aliased, history, last_binance, last_bybit,
                   oi_binance, oi_bybit, alerts, sent, iters, cycle, ok_ticks,
            restored, zs, probe>>

\* A write to the temporary file that stopped after the first k records.
Partial(doc, k) == <<SubSeq(doc, 1, k), "partial">>

\* save_state that writes the state path itself, with no temporary file: a
\* write that fails leaves the part it wrote in the state file.
SaveFailsInPlace ==
    /\ pc = "save_write"
    /\ \E k \in 0..Len(state[1]) :
           file' = [kind |-> "partial", history |-> SubSeq(state[1], 1, k)]
    /\ pc' = "crashed"
    /\ UNCHANGED <<args, tmp, state, aliased, history, last_binance,
                   last_bybit, oi_binance, oi_bybit, alerts, sent, iters, ret,
                   cycle, ok_ticks, restored, zs, probe>>

\* save_state raises (the disk is full, the directory is not writable): no
\* try/except stands between save_state and the top of the program, so the
\* exception ends run_loop.  The state file is untouched; the temporary file
\* holds what was written.
SaveFails ==
    /\ \/ /\ pc = "save_write"
          /\ \E k \in 0..Len(state[1]) : tmp' = Partial(state[1], k)
       \/ /\ pc = "save_replace"
          /\ tmp' = tmp
    /\ pc' = "crashed"
    /\ UNCHANGED <<args, file, state, aliased, history, last_binance,
                   last_bybit, oi_binance, oi_bybit, alerts, sent, iters, ret,
                   cycle, ok_ticks, restored, zs, probe>>

\* The points of run_loop at which sigint_handler is installed and the
\* process is still running.
HandlerInstalled ==
    pc \notin {"load", "install", "done", "exited", "killed", "crashed"}

\* data written over content from offset off on (in records).
Overlay(content, off, data) ==
    SubSeq(content, 1, off) \o data
        \o SubSeq(content, off + Len(data) + 1, Len(content))

\* The state file once sys.exit(0) has unwound an interrupted save_state.
\* The handler has written doc to the temporary file, truncating it, and
\* moved it to the state path.  The interrupted json.dump of the loop had
\* produced the first k records of loop_doc and flushed j of them; leaving
\* its `with` block closes its file object, which flushes records j+1..k at
\* offset j into the same inode, now the state file.
AfterUnwind(doc, loop_doc, j, k) ==
    LET flushed == Overlay(doc, j, SubSeq(loop_doc, j + 1, k))
    IN  IF j <= Len(doc) /\ flushed = doc
        THEN [kind |-> "doc", history |-> doc]
        ELSE [kind |-> "partial", history |-> flushed]

\* lines 116-120: sigint_handler, run to completion: trim, save, sys.exit(0).
\* At "save_write" the signal may have come at any point of lines 72-74.
sigint_handler ==
    /\ HandlerInstalled
    /\ state' = Some(NegSlice(history, args.keep_points))
    /\ aliased' = FALSE
    /\ IF pc = "save_write"
       THEN \E k \in 0..Len(state[1]) : \E j \in 0..k :
                file' = AfterUnwind(NegSlice(history, args.keep_points),
                                    state[1], j, k)
       ELSE file' = [kind |-> "doc",
                     history |-> NegSlice(history, args.keep_points)]
    /\ tmp' = None
    /\ pc' = "exited"
    /\ UNCHANGED <<args, history, last_binance, last_bybit, oi_binance,
                   oi_bybit, alerts, sent, iters, ret, cycle, ok_ticks,
            restored, zs, probe>>

\* SIGINT before line 122 has run: Python's default handler raises
\* KeyboardInterrupt, nothing is saved, the exit code is not 0.
KeyboardInterrupt ==
    /\ pc \in {"load", "install"}
    /\ pc' = "killed"
    /\ UNCHANGED <<args, file, tmp, state, aliased, history, last_binance,
                   last_bybit, oi_binance, oi_bybit, alerts, sent, iters, ret,
                   cycle, ok_ticks, restored, zs, probe>>

Next ==
    \/ LoadState
    \/ InstallHandler
    \/ InitBaseline
    \/ Fetch
    \/ SkipCycle
    \/ AppendTick
    \/ TrimHistory
    \/ Warmup
    \/ WarmupSleep
    \/ Classify
    \/ Notify
    \/ UpdateBaseline
    \/ Sleep
    \/ SaveWrite
    \/ SaveReplace
    \/ SaveFails
    \/ sigint_handler
    \/ KeyboardInterrupt

Spec == Init /\ [][Next]_vars

\* The exit code of a finished process, -1 while it runs.
\* ------------------------------ rolling_stats and zscore on their own
\* Every window of up to MaxWindow values.
Windows == UNION {[1..n -> OIVals] : n \in 0..MaxWindow}

\* A window and a value to score against it; run_loop is not running.
StatsInit ==
    /\ probe \in {[values |-> w, x |-> v, stats |-> None, z |-> None,
                   step |-> "rolling_stats"] : w \in Windows, v \in OIVals}
    /\ args = Args(MaxKeep, 1, 1, 1, 100, FALSE, 0)
    /\ file = [kind |-> "missing", history |-> << >>]
    /\ tmp = None /\ state = None /\ aliased = FALSE /\ history = << >>
    /\ last_binance = None /\ last_bybit = None
    /\ oi_binance = None /\ oi_bybit = None
    /\ alerts = << >> /\ sent = << >> /\ iters = 0
    /\ pc = "probe" /\ ret = "none" /\ cycle = "none"
    /\ ok_ticks = 0 /\ restored = FALSE /\ zs = None

\* m, s = rolling_stats(values)
ProbeRollingStats ==
    /\ probe.step = "rolling_stats"
    /\ probe' = [probe EXCEPT !.stats = Some(rolling_stats(probe.values)),
                              !.step = "zscore"]
    /\ UNCHANGED <<args, file, tmp, state, aliased, history, last_binance,
                   last_bybit, oi_binance, oi_bybit, alerts, sent, iters, pc,
                   ret, cycle, ok_ticks, restored, zs>>

\* z = zscore(x, m, s)
ProbeZScore ==
    /\ probe.step = "zscore"
    /\ probe' = [probe EXCEPT
                    !.z = Some(zscore(probe.x, probe.stats[1].mean,
                                      probe.stats[1].std)),
                    !.step = "done"]
    /\ UNCHANGED <<args, file, tmp, state, aliased, history, last_binance,
                   last_bybit, oi_binance, oi_bybit, alerts, sent, iters, pc,
                   ret, cycle, ok_ticks, restored, zs>>

StatsNext == ProbeRollingStats \/ ProbeZScore

StatsSpec == StatsInit /\ [][StatsNext]_vars

ExitCode ==
    IF pc \in {"done", "exited"} THEN 0
    ELSE IF pc \in {"killed", "crashed"} THEN 1 ELSE -1

\* ------------------------------------------------------------- claims
\* The tick that has just been classified: alerts was built from the fetched
\* values and the baseline, which line 206 has not yet overwritten.
Classified == pc = "notify"

A_now == oi_binance[1]
B_now == oi_bybit[1]
A_prev == last_binance[1]
B_prev == last_bybit[1]

\* "the pct change of new against old is >= t" and "<= t", by the spec's
\* step 1 (0 when old is 0), for old >= 0, without the model's fractions.
PctAtLeast(new, old, t) ==
    IF old = 0 THEN 0 >= t ELSE (new - old) * 100 >= t * old
PctAtMost(new, old, t) ==
    IF old = 0 THEN 0 <= t ELSE (new - old) * 100 <= t * old

Fired(cat) == cat \in Categories(alerts)
Has(alert) == \E i \in DOMAIN alerts : alerts[i] = alert

A_up_B_down ==
    /\ PctAtLeast(A_now, A_prev, args.up_thresh_pct)
    /\ PctAtMost(B_now, B_prev, -args.down_thresh_pct)
B_up_A_down ==
    /\ PctAtLeast(B_now, B_prev, args.up_thresh_pct)
    /\ PctAtMost(A_now, A_prev, -args.down_thresh_pct)

\* C1: on every classified tick Seesaw fires iff (A's pct change >= up_thresh
\* and B's <= -down_thresh) or (B's >= up_thresh and A's <= -down_thresh);
\* the label names A as the riser when the first case holds, B otherwise.
C1_Seesaw ==
    Classified =>
        /\ Fired("Seesaw") <=> (A_up_B_down \/ B_up_A_down)
        /\ A_up_B_down => Has(<<"Seesaw", "Binance up / Bybit down">>)
        /\ (B_up_A_down /\ ~A_up_B_down)
               => Has(<<"Seesaw", "Bybit up / Binance down">>)

\* A classified tick on which B rose, A fell and Seesaw carries B's label.
C1_Witness ==
    /\ Classified
    /\ B_up_A_down /\ ~A_up_B_down
    /\ args.up_thresh_pct = 1
    /\ Has(<<"Seesaw", "Bybit up / Binance down">>)

\* C2: on every classified tick Sync Pump fires iff both pct changes are
\* >= sync_thresh, and Sync Flush fires iff both are <= -sync_thresh.
C2_Sync ==
    Classified =>
        /\ Fired("Sync Pump") <=>
               /\ PctAtLeast(A_now, A_prev, args.sync_thresh_pct)
               /\ PctAtLeast(B_now, B_prev, args.sync_thresh_pct)
        /\ Fired("Sync Flush") <=>
               /\ PctAtMost(A_now, A_prev, -args.sync_thresh_pct)
               /\ PctAtMost(B_now, B_prev, -args.sync_thresh_pct)

\* A classified tick on which both sources fell by the threshold or more:
\* Sync Flush fired and Sync Pump did not.
C2_Witness ==
    /\ Classified
    /\ args.sync_thresh_pct = 1
    /\ A_now < A_prev /\ B_now < B_prev
    /\ Fired("Sync Flush") /\ ~Fired("Sync Pump")

\* C3: on every classified tick Total Swing fires iff
\* abs((current_a + current_b) - (previous_a + previous_b)) >= threshold,
\* whatever the percentage rules do.
C3_TotalSwing ==
    Classified =>
        (Fired("Total Swing") <=>
            \/ (A_now + B_now) - (A_prev + B_prev) >= args.total_swing_thresh
            \/ (A_prev + B_prev) - (A_now + B_now) >= args.total_swing_thresh)

\* A classified tick whose total fell by the threshold with a previous value
\* of 0: Total Swing is the only alert.
C3_Witness ==
    /\ Classified
    /\ A_prev = 0
    /\ A_now + B_now < A_prev + B_prev
    /\ alerts = << <<"Total Swing", "swing over threshold">> >>

\* C4 as stated: up to the end of the first successful tick of a run there
\* is no alert and no notifier call, whatever the state file held.
C4_AsStated ==
    ok_ticks <= 1 => (alerts = << >> /\ sent = << >>)

\* C4 amended: when the run starts without a baseline (the state file is
\* missing or holds an empty history), up to the end of its first
\* successful tick there is no alert and no notifier call.
C4_Warmup ==
    (~restored /\ ok_ticks <= 1) => (alerts = << >> /\ sent = << >>)

\* The first successful tick of a run without a restored baseline has been
\* saved, with a webhook set and thresholds of 0 that any classified tick
\* meets.
C4_Witness ==
    /\ pc = "warm_sleep"
    /\ ~restored /\ ok_ticks = 1
    /\ args.webhook
    /\ args.sync_thresh_pct = 0
    /\ alerts = << >> /\ sent = << >>

\* C5: no step of a cycle whose fetch failed (the failing fetch itself, the
\* skip, a final save, an interrupt) changes the History Buffer, the
\* baseline, the alerts or the notifier calls.
C5_FailedCycleFrame ==
    [][cycle' = "failed" =>
          UNCHANGED <<history, last_binance, last_bybit, alerts, sent>>]_vars

\* A cycle in which only source A failed has ended, in Steady, after an
\* earlier successful cycle.
C5_Witness ==
    /\ cycle = "failed" /\ pc = "fetch"
    /\ oi_binance = None /\ oi_bybit # None
    /\ ok_ticks >= 1 /\ last_binance # None /\ history # << >>

\* The most recent k records of s, in order (none when k = 0).
MostRecent(s, k) ==
    SubSeq(s, Len(s) - (IF k < Len(s) THEN k ELSE Len(s)) + 1, Len(s))

\* C6: once the state file is loaded, the History Buffer never holds more
\* than keep_points records (the instant between the append of line 143 and
\* the trim of line 144 left aside).
C6_Bounded ==
    pc \notin {"load", "trim"} => Len(history) <= args.keep_points

\* C7: the append of a tick puts the new tick last, and the trim that follows
\* leaves exactly the most recent keep_points records of the buffer, in
\* order, the new tick last among them.
C7_Fifo ==
    [][/\ (pc = "append" /\ pc' = "trim") =>
              history' = Append(history,
                                TickRecord(ts, oi_binance[1], oi_bybit[1]))
       /\ (pc = "trim" /\ pc' \in {"warmup", "classify"}) =>
              /\ history' = MostRecent(history, args.keep_points)
              /\ history' # << >> =>
                     history'[Len(history')] = history[Len(history)]]_vars

\* C8: at the start of every cycle the baseline is the value pair of the last
\* record of the History Buffer, and it is absent exactly when the buffer is
\* empty.
C8_BaselineFromHistory ==
    pc = "fetch" =>
        /\ (last_binance = None) <=> (history = << >>)
        /\ (last_bybit = None) <=> (history = << >>)
        /\ history # << >> =>
               /\ last_binance = Some(history[Len(history)].oi_binance)
               /\ last_bybit = Some(history[Len(history)].oi_bybit)

\* The first cycle is about to start with a baseline restored from a state
\* file of two records or more.
C8_Witness ==
    /\ pc = "fetch" /\ iters = 0
    /\ Len(history) >= 2
    /\ last_binance = Some(history[Len(history)].oi_binance)
    /\ history[1].oi_binance # history[Len(history)].oi_binance

\* A successful cycle has done all but its sleep.
CycleSaved == pc \in {"warm_sleep", "sleep"}

\* C9: when a successful cycle (Warmup or Steady) has saved, the history in
\* the state file is the History Buffer and the baseline is the tick just
\* fetched; and no step of a failed cycle that comes after a successful one
\* changes the history in the state file.
C9_Persisted ==
    /\ [](CycleSaved =>
            /\ file.kind = "doc" /\ file.history = history
            /\ last_binance = oi_binance /\ last_bybit = oi_bybit
            /\ history # << >>
            /\ history[Len(history)] =
                   TickRecord(ts, oi_binance[1], oi_bybit[1]))
    /\ [][(cycle' = "failed" /\ ok_ticks >= 1) =>
              file'.history = file.history]_vars

\* A Steady cycle has saved a buffer of two records or more.
C9_Witness ==
    /\ pc = "sleep" /\ cycle = "steady"
    /\ file.history = history
    /\ Len(history) >= 2
    /\ last_binance = oi_binance

\* C10: a SIGINT at any point of run_loop ends the process with exit code 0,
\* the state file holding the last keep_points records of the buffer as it
\* was when the signal came; nothing runs afterwards.
C10_Interrupt ==
    /\ pc # "killed"
    /\ pc = "exited" =>
           /\ ExitCode = 0
           /\ file.kind = "doc"
           /\ file.history = MostRecent(history, args.keep_points)
           /\ ~ENABLED Next

\* The tick of the cycle under way, as line 143 appends it.
ThisTick == TickRecord(ts, oi_binance[1], oi_bybit[1])

InSeq(r, s) == \E i \in DOMAIN s : s[i] = r

\* The tick is in history but the bookkeeping of its cycle is not over: the
\* trim, the classification, the notification or the baseline update is
\* still to come.
MidCycle == pc \in {"trim", "warmup", "classify", "notify", "update"}

\* C11: an interrupt that arrives in the middle of a cycle never persists
\* the tick of that cycle: the state file at exit holds the tick only if its
\* classification, notification and baseline update were carried out.
C11_NoHalfAppliedCycle ==
    [][(MidCycle /\ pc' = "exited") => ~InSeq(ThisTick, file'.history)]_vars

\* C12: run_loop returns only with max_iter = N > 0, after exactly N cycles
\* (failed, Warmup or Steady), and the state file then holds the last
\* keep_points records of the in-memory history.
C12_BoundedIterations ==
    pc = "done" =>
        /\ args.max_iter > 0
        /\ iters = args.max_iter
        /\ file.kind = "doc"
        /\ file.history = MostRecent(history, args.keep_points)

\* C13: no error halts the polling loop: once a cycle has begun, whichever of
\* a fetch, a notification delivery or a state-file write fails in it, the
\* process does not end on an exception.
C13_NoErrorHalts ==
    cycle # "none" => pc # "crashed"

\* The last call of the notifier failed.
LastDeliveryFailed == sent # << >> /\ ~sent[Len(sent)].ok

\* C14: a failed delivery never blocks the tick and is never retried.  The
\* notifier is called only by the step from the rules to the baseline update
\* of a tick with at least one alert, once, with the one composed message,
\* and every other variable is left as it was whether the call succeeds or
\* not; there are never more calls than successful ticks; and a Steady cycle
\* that reaches its sleep, its last delivery failed or not, has the current
\* tick as baseline and the History Buffer in the state file.
C14_DeliveryNeverBlocks ==
    /\ [][sent' # sent =>
              /\ pc = "notify" /\ pc' = "update"
              /\ alerts # << >>
              /\ \E ok \in BOOLEAN :
                     sent' = Append(sent, [title |-> Title(alerts), ok |-> ok])
              /\ UNCHANGED <<history, last_binance, last_bybit, oi_binance,
                             oi_bybit, alerts, iters, file, state>>]_vars
    /\ [](Len(sent) <= ok_ticks)
    /\ []((pc = "sleep" /\ cycle = "steady") =>
              /\ last_binance = oi_binance /\ last_bybit = oi_bybit
              /\ file.kind = "doc" /\ file.history = history)

\* The only delivery of the run, that of its first tick, failed, and the
\* cycle has updated the baseline and saved.
C14_Witness ==
    /\ pc = "sleep" /\ cycle = "steady"
    /\ ok_ticks = 1 /\ Len(sent) = 1 /\ LastDeliveryFailed
    /\ last_binance = oi_binance /\ last_bybit = oi_bybit
    /\ file.history = history

\* C15: the state file always holds a complete document: it is never a
\* partial or corrupt one, and every step that changes it, the interrupt
\* handler cutting into a save of the loop included, puts in it the whole
\* document that save_state was given.  A save that fails, or is cut short,
\* leaves the state file as it was.
C15_AtomicReplace ==
    /\ [](file.kind # "partial")
    /\ [][file' # file =>
              /\ file'.kind = "doc"
              /\ state' # None /\ file'.history = state'[1]]_vars
    /\ [][pc' = "crashed" => file' = file]_vars

\* The interrupt came inside a save_state of a Steady cycle, and the state
\* file holds the whole buffer.
C15_Witness ==
    /\ pc = "exited" /\ ret = "sleep"
    /\ file.kind = "doc" /\ file.history = history
    /\ Len(history) >= 2

\* The state file is absent or malformed.
Malformed == file.kind \in {"missing", "garbage", "nondict"}

\* C16: a state file that is absent or malformed at start is treated as
\* empty state: loading it does not fail and gives an empty History Buffer,
\* and the run comes to its first fetch with no baseline.
C16_MalformedIsEmpty ==
    /\ [][(pc = "load" /\ Malformed /\ pc' # "killed") =>
              (pc' = "install" /\ history' = << >>)]_vars
    /\ []((pc = "fetch" /\ cycle = "none" /\ Malformed) =>
              (last_binance = None /\ last_bybit = None /\ history = << >>))

\* The four categories in the order of the specification.
CategoryOrder == <<"Seesaw", "Sync Pump", "Sync Flush", "Total Swing">>

\* The condition of each category on the tick under way, rule by rule.
ConditionHolds(cat) ==
    CASE cat = "Seesaw" -> A_up_B_down \/ B_up_A_down
      [] cat = "Sync Pump" ->
             /\ PctAtLeast(A_now, A_prev, args.sync_thresh_pct)
             /\ PctAtLeast(B_now, B_prev, args.sync_thresh_pct)
      [] cat = "Sync Flush" ->
             /\ PctAtMost(A_now, A_prev, -args.sync_thresh_pct)
             /\ PctAtMost(B_now, B_prev, -args.sync_thresh_pct)
      [] cat = "Total Swing" ->
             Abs((A_now + B_now) - (A_prev + B_prev))
                 >= args.total_swing_thresh

\* C17: the alerts of a classified tick are, in the order Seesaw, Sync Pump,
\* Sync Flush, Total Swing, exactly the categories whose own condition holds,
\* each once, whatever the other conditions do; and the message posted for
\* the tick names all of them, in that order.
C17_OrderedAlerts ==
    /\ [](Classified =>
              Title(alerts) = SelectSeq(CategoryOrder, ConditionHolds))
    /\ [][(Classified /\ sent' # sent) =>
              sent'[Len(sent')].title = SelectSeq(CategoryOrder, Fired)]_vars

\* All four categories fired on one tick and went into one message.
C17_Witness ==
    /\ pc = "update"
    /\ Len(alerts) = 4
    /\ sent # << >> /\ sent[Len(sent)].title = CategoryOrder

\* The window, the value scored and what the two functions returned.
Scored == probe.step = "done"
Window == probe.values
StdReturned == probe.stats[1].std
ZReturned == probe.z[1]

Constant(w) == \A i, j \in DOMAIN w : w[i] = w[j]
Epsilon == Exactly(<<1, EpsInv>>)
IsZero(z) == z.num[1] = 0

OtherHistories ==
    {[i \in 1..n |-> TickRecord(0, a, b)] \o <<ThisTick>> :
        n \in 0..(MaxWindow - 1), a \in OIVals, b \in OIVals}

OutcomeWith(hist) ==
    TickOutcome(A_now, B_now, A_prev, B_prev, hist, args)

\* C19: the alerts of a tick depend only on its two values, the baseline and
\* the thresholds: classifying the same tick against the same baseline with
\* any other History Buffer gives the same alerts as the run got.
C19_HistoryIndependent ==
    Classified =>
        \A h \in OtherHistories : OutcomeWith(h).alerts = alerts

\* A classified tick with alerts, scored away from the mean of its window,
\* that another History Buffer would have scored differently.
C19_Witness ==
    /\ Classified
    /\ alerts # << >>
    /\ Len(history) >= 2
    /\ ~IsZero(zs[1][1])
    /\ \E h \in OtherHistories : OutcomeWith(h).zs # zs[1]

PctRules == {"Seesaw", "Sync Pump", "Sync Flush"}

PositiveThresholds ==
    /\ args.up_thresh_pct > 0
    /\ args.down_thresh_pct > 0
    /\ args.sync_thresh_pct > 0

\* C20: with up_thresh, down_thresh and sync_thresh all > 0, at most one of
\* Seesaw, Sync Pump and Sync Flush fires on a classified tick; and when the
\* previous value of a source is 0 its pct change is 0 and none of the three
\* fires, so that the alerts are Total Swing alone or none.
C20_Exclusive ==
    (Classified /\ PositiveThresholds) =>
        /\ Cardinality(Categories(alerts) \cap PctRules) <= 1
        /\ A_prev = 0 => pct_change(A_now, A_prev)[1] = 0
        /\ B_prev = 0 => pct_change(B_now, B_prev)[1] = 0
        /\ (A_prev = 0 \/ B_prev = 0) =>
               Categories(alerts) \subseteq {"Total Swing"}

\* With positive thresholds, both sources rose from a baseline in which one
\* of them was 0: Total Swing fired alone.
C20_Witness ==
    /\ Classified /\ PositiveThresholds
    /\ (A_prev = 0 \/ B_prev = 0)
    /\ A_now > A_prev /\ B_now > B_prev
    /\ Title(alerts) = <<"Total Swing">>

====
